---- MODULE Spec2Model ----
(***************************************************************************)
(* A model of yaml_sanitizer.py (class YAMLSanitizer): the structural      *)
(* comparer, the ancestor component collector, the redundancy eliminator   *)
(* and the field orderer.                                                  *)
(*                                                                         *)
(* Every YAML value is a record [cls, value]: cls is the Python class of   *)
(* the object ruamel's round-trip loader builds, value its payload.  A     *)
(* mapping's payload is the sequence of its <<key, value>> items in key    *)
(* order (dicts keep insertion order), a sequence's payload the sequence   *)
(* of its elements, a string's payload its characters.                     *)
(***************************************************************************)
EXTENDS Integers, Sequences, FiniteSets, TLC

VARIABLES prototypes, pc, arg, ret, ret2, warnings, stack

vars == <<prototypes, pc, arg, ret, ret2, warnings, stack>>

(***************************************************************************)
(* Python values                                                           *)
(***************************************************************************)
None == [cls |-> "NoneType"]

Str(s) == [cls |-> "str", value |-> s]

SingleQuoted(s) == [cls |-> "SingleQuotedScalarString", value |-> s]

DoubleQuoted(s) == [cls |-> "DoubleQuotedScalarString", value |-> s]

Tagged(t, s) == [cls |-> "TaggedScalar", value |-> s, tag |-> t]

CommentedMap(items) == [cls |-> "CommentedMap", value |-> items]

Dict(items) == [cls |-> "dict", value |-> items]

CommentedSeq(elems) == [cls |-> "CommentedSeq", value |-> elems]

\* isinstance(v, str): the quoted scalar strings are subclasses of str
IsStr(v) == v.cls \in {"str", "SingleQuotedScalarString", "DoubleQuotedScalarString"}

\* isinstance(v, dict): CommentedMap is a subclass of dict
IsDict(v) == v.cls \in {"dict", "CommentedMap"}

\* isinstance(v, list): CommentedSeq is a subclass of list
IsList(v) == v.cls \in {"list", "CommentedSeq"}

\* hasattr(v, 'value'): TaggedScalar carries its scalar in .value; on two strings
\* of one class either branch of the comparer compares the characters
HasValueAttr(v) == v.cls = "TaggedScalar"

(***************************************************************************)
(* dict operations on item sequences                                       *)
(***************************************************************************)
Keys(items) == {items[i][1] : i \in DOMAIN items}

\* key in d
Has(items, k) == \E i \in DOMAIN items : items[i][1] = k

\* d[key]
Get(items, k) == items[CHOOSE i \in DOMAIN items : items[i][1] = k][2]

\* d[key] = v: a present key keeps its place, a new key goes last
Put(items, k, v) ==
    IF Has(items, k)
    THEN [i \in DOMAIN items |-> IF items[i][1] = k THEN <<k, v>> ELSE items[i]]
    ELSE Append(items, <<k, v>>)

SeqsUpTo(S, n) == UNION {[1..k -> S] : k \in 0..n}

(***************************************************************************)
(* _compare_values                                                         *)
(***************************************************************************)
RECURSIVE _compare_values(_, _)

\* A comparer whose mapping branch also asks that val2 has no extra key.
SymmetricCompare(val1, val2) ==
    IF val1.cls # val2.cls THEN FALSE
    ELSE IF IsDict(val1)
    THEN /\ Len(val1.value) = Len(val2.value)
         /\ \A i \in DOMAIN val1.value :
               /\ Has(val2.value, val1.value[i][1])
               /\ _compare_values(val1.value[i][2], Get(val2.value, val1.value[i][1]))
    ELSE IF IsList(val1)
    THEN IF Len(val1.value) # Len(val2.value) THEN FALSE
         ELSE \A i \in DOMAIN val1.value : _compare_values(val1.value[i], val2.value[i])
    ELSE val1.value = val2.value

_compare_values(val1, val2) ==
    IF val1.cls # val2.cls THEN FALSE
    ELSE IF IsDict(val1)
    THEN \A i \in DOMAIN val1.value :
            /\ Has(val2.value, val1.value[i][1])
            /\ _compare_values(val1.value[i][2], Get(val2.value, val1.value[i][1]))
    ELSE IF IsList(val1)
    THEN IF Len(val1.value) # Len(val2.value) THEN FALSE
         ELSE \A i \in DOMAIN val1.value : _compare_values(val1.value[i], val2.value[i])
    ELSE IF HasValueAttr(val1) /\ HasValueAttr(val2)
    THEN val1.value = val2.value
    ELSE val1 = val2

(***************************************************************************)
(* The values the comparer is applied to                                   *)
(***************************************************************************)
MaxLen == 2

Prims == {"1", "2"}

Tags == {"!t", "!u"}

Scalars ==
    {Str(s) : s \in Prims} \cup {SingleQuoted(s) : s \in Prims}
      \cup {DoubleQuoted(s) : s \in Prims}
      \cup {Tagged(t, s) : t \in Tags, s \in Prims}

Leaves == {Str("1"), Str("2"), DoubleQuoted("1")}

KeyOrders == {<<>>, <<"a">>, <<"b">>, <<"a", "b">>, <<"b", "a">>}

MapsOver(S) ==
    {CommentedMap([i \in DOMAIN ks |-> <<ks[i], f[ks[i]]>>]) :
        ks \in KeyOrders, f \in [{"a", "b"} -> S]}

FlatMaps == MapsOver(Leaves)

FlatSeqs == {CommentedSeq(s) : s \in SeqsUpTo(Leaves, MaxLen)}

Inner ==
    {CommentedMap(<< <<"a", Str("1")>> >>),
     CommentedMap(<< <<"a", Str("1")>>, <<"b", Str("2")>> >>),
     CommentedSeq(<< Str("1") >>),
     CommentedSeq(<< Str("1"), Str("2") >>)}

NestedMaps ==
    {CommentedMap(<< <<"a", n>> >>) : n \in Inner}
      \cup {CommentedMap(<< <<"a", n>>, <<"b", Str("2")>> >>) : n \in Inner}

NestedSeqs == {CommentedSeq(s) : s \in SeqsUpTo(Inner, MaxLen) \ {<<>>}}

Values == Scalars \cup FlatMaps \cup FlatSeqs \cup NestedMaps \cup NestedSeqs

(***************************************************************************)
(* SpecCompare: _compare_values applied to a pair of values                *)
(***************************************************************************)
InitCompare ==
    /\ prototypes = <<>>
    /\ pc = "start"
    /\ arg \in Values \X Values
    /\ ret = None
    /\ ret2 = None
    /\ warnings = <<>>
    /\ stack = <<>>

Compare ==
    /\ pc = "start"
    /\ ret' = _compare_values(arg[1], arg[2])
    /\ pc' = "done"
    /\ UNCHANGED <<prototypes, arg, ret2, warnings, stack>>

NextCompare == Compare

SpecCompare == InitCompare /\ [][NextCompare]_vars

\* C5: on two mappings the comparer answers whether every key of the first
\* exists in the second with a comparer-equal value (extra keys of the second
\* do not matter), and on two sequences whether they have the same length and
\* are pairwise comparer-equal in index order.
C5_MappingContainment ==
    pc = "done" =>
        LET a == arg[1].value
            b == arg[2].value
        IN  /\ (arg[1].cls = "CommentedMap" /\ arg[2].cls = "CommentedMap") =>
                 (ret <=> \A k \in Keys(a) :
                             k \in Keys(b) /\ _compare_values(Get(a, k), Get(b, k)))
            /\ (arg[1].cls = "CommentedSeq" /\ arg[2].cls = "CommentedSeq") =>
                 (ret <=> /\ Len(a) = Len(b)
                          /\ \A i \in 1..Len(a) : _compare_values(a[i], b[i]))
            /\ (arg = <<CommentedMap(<< <<"a", Str("1")>> >>),
                        CommentedMap(<< <<"a", Str("1")>>, <<"b", Str("2")>> >>)>>)
                 => ret = TRUE
            /\ (arg = <<CommentedMap(<< <<"a", Str("1")>>, <<"b", Str("2")>> >>),
                        CommentedMap(<< <<"a", Str("1")>> >>)>>)
                 => ret = FALSE

\* The comparer has answered TRUE on {a: 1} against {a: 1, b: 2}.
C5_Witness ==
    /\ pc = "done"
    /\ arg = <<CommentedMap(<< <<"a", Str("1")>> >>),
               CommentedMap(<< <<"a", Str("1")>>, <<"b", Str("2")>> >>)>>
    /\ ret = TRUE

\* The classes that wrap a primitive: the quoted strings and the tagged scalar.
IsWrapper(v) ==
    v.cls \in {"SingleQuotedScalarString", "DoubleQuotedScalarString", "TaggedScalar"}

\* C6: two scalar wrappers whose underlying primitives are equal compare equal,
\* whatever the classes of the two wrappers.
C6_WrappersEqualByPrimitive ==
    (pc = "done" /\ IsWrapper(arg[1]) /\ IsWrapper(arg[2])
        /\ arg[1].value = arg[2].value) => ret = TRUE

(***************************************************************************)
(* _order_prototype_fields                                                 *)
(***************************************************************************)
\* A field order in which id comes before parent.
IdBeforeParentOrder ==
    <<"type", "abstract", "id", "parent", "categories", "name", "suffix",
      "description", "components">>

PROTOTYPE_FIELD_ORDER ==
    <<"type", "abstract", "parent", "id", "categories", "name", "suffix",
      "description", "components">>

\* ordered = {}; the listed fields the prototype has, in the list's order; then
\* the prototype's items whose key is not yet in ordered, in the prototype's order
_order_prototype_fields(prototype) ==
    LET present == SelectSeq(PROTOTYPE_FIELD_ORDER, LAMBDA field : Has(prototype.value, field))
        ordered == [i \in DOMAIN present |-> <<present[i], Get(prototype.value, present[i])>>]
        remaining == SelectSeq(prototype.value, LAMBDA item : ~Has(ordered, item[1]))
    IN  Dict(ordered \o remaining)

(***************************************************************************)
(* SpecOrder: _order_prototype_fields applied to a document                *)
(***************************************************************************)
MaxKeys == 4

DocKeys == {"type", "id", "parent", "name", "components", "save", "placement"}

\* The value each key of a document of SpecOrder is bound to.  The component
\* and the placement mapping have their keys out of the priority order.
DocValue(k) ==
    CASE k = "type" -> Str("entity")
      [] k = "id" -> Str("P")
      [] k = "parent" -> CommentedSeq(<<Str("A"), Str("B")>>)
      [] k = "name" -> DoubleQuoted("crate")
      [] k = "components" ->
            CommentedSeq(<<CommentedMap(<< <<"components", Str("1")>>, <<"id", Str("2")>>,
                                            <<"type", Str("Sprite")>> >>)>>)
      [] k = "save" -> Str("false")
      [] k = "placement" -> CommentedMap(<< <<"name", Str("1")>>, <<"type", Str("2")>> >>)

\* The sequences of at most n distinct keys
KeySeqs(n) ==
    {ks \in SeqsUpTo(DocKeys, n) : \A i, j \in DOMAIN ks : i # j => ks[i] # ks[j]}

Documents ==
    {CommentedMap([i \in DOMAIN ks |-> <<ks[i], DocValue(ks[i])>>]) : ks \in KeySeqs(MaxKeys)}

InitOrder ==
    /\ prototypes = <<>>
    /\ pc = "start"
    /\ arg \in Documents
    /\ ret = None
    /\ ret2 = None
    /\ warnings = <<>>
    /\ stack = <<>>

Order ==
    /\ pc = "start"
    /\ ret' = _order_prototype_fields(arg)
    /\ pc' = "done"
    /\ UNCHANGED <<prototypes, arg, ret2, warnings, stack>>

NextOrder == Order

SpecOrder == InitOrder /\ [][NextOrder]_vars

\* The priority list as the specification states it.
Priority ==
    <<"type", "abstract", "parent", "id", "categories", "name", "suffix",
      "description", "components">>

InPriority(k) == \E i \in DOMAIN Priority : Priority[i] = k

Rank(k) == CHOOSE i \in DOMAIN Priority : Priority[i] = k

Pos(items, k) == CHOOSE i \in DOMAIN items : items[i][1] = k

\* C9: the ordered document has exactly the input's keys, each once and bound to
\* the input's value (nested mappings untouched); the keys of the priority list
\* come first, in the list's order, and the other keys follow in the input's
\* relative order.
C9_FieldOrder ==
    pc = "done" =>
        LET in == arg.value
            out == ret.value
        IN  /\ Len(out) = Len(in)
            /\ Keys(out) = Keys(in)
            /\ \A k \in Keys(in) : Get(out, k) = Get(in, k)
            /\ \A i, j \in DOMAIN out :
                 i < j =>
                   LET ki == out[i][1]
                       kj == out[j][1]
                   IN  \/ InPriority(ki) /\ InPriority(kj) /\ Rank(ki) < Rank(kj)
                       \/ InPriority(ki) /\ ~InPriority(kj)
                       \/ ~InPriority(ki) /\ ~InPriority(kj) /\ Pos(in, ki) < Pos(in, kj)

\* A document with two extra keys ahead of id and parent has been reordered.
C9_Witness ==
    /\ pc = "done"
    /\ [i \in DOMAIN arg.value |-> arg.value[i][1]] = <<"save", "placement", "id", "parent">>
    /\ [i \in DOMAIN ret.value |-> ret.value[i][1]] = <<"parent", "id", "save", "placement">>

(***************************************************************************)
(* are_components_equal                                                    *)
(***************************************************************************)
NonTypeItems(comp) == SelectSeq(comp.value, LAMBDA item : item[1] # "type")

are_components_equal(comp1, comp2) ==
    LET comp1_data == NonTypeItems(comp1)
        comp2_data == NonTypeItems(comp2)
    IN  IF comp1_data = <<>> /\ comp2_data = <<>> THEN TRUE
        ELSE IF (comp1_data # <<>>) # (comp2_data # <<>>) THEN FALSE
        ELSE _compare_values(Dict(comp1_data), Dict(comp2_data))

(***************************************************************************)
(* _remove_redundant_fields                                                *)
(***************************************************************************)
\* The keys of component (type aside) that parent_comp has with an equal value
MatchedBy(component, parent_comp) ==
    {component.value[i][1] : i \in
        {j \in DOMAIN component.value :
            /\ component.value[j][1] # "type"
            /\ Has(parent_comp.value, component.value[j][1])
            /\ _compare_values(component.value[j][2],
                               Get(parent_comp.value, component.value[j][1]))}}

\* redundant_fields after the first n parent components
RECURSIVE RedundantFields(_, _, _)
RedundantFields(component, parents_components, n) ==
    IF n = 0 THEN {}
    ELSE RedundantFields(component, parents_components, n - 1)
           \cup MatchedBy(component, parents_components[n])

\* A stripper that looks at the first parent component only.
FirstParentOnly(component, parents_components) ==
    LET redundant_fields == RedundantFields(component, parents_components, 1)
    IN  [component EXCEPT !.value = SelectSeq(@, LAMBDA item : item[1] \notin redundant_fields)]

_remove_redundant_fields(component, parents_components) ==
    LET redundant_fields ==
            RedundantFields(component, parents_components, Len(parents_components))
    IN  [component EXCEPT !.value = SelectSeq(@, LAMBDA item : item[1] \notin redundant_fields)]

(***************************************************************************)
(* get_all_parent_components                                               *)
(***************************************************************************)
\* parent_components = {}
EmptyIndex == [t \in {} |-> <<>>]

\* parent_components[comp_type].append(comp), the list created when missing
AppendTo(index, comp_type, comp) ==
    [t \in DOMAIN index \cup {comp_type} |->
        IF t = comp_type
        THEN (IF t \in DOMAIN index THEN index[t] ELSE <<>>) \o <<comp>>
        ELSE index[t]]

\* The farther ancestors' configurations put before the nearer ones'.
MergeFartherFirst(index, parent_comps) ==
    [t \in DOMAIN index \cup DOMAIN parent_comps |->
        (IF t \in DOMAIN parent_comps THEN parent_comps[t] ELSE <<>>)
          \o (IF t \in DOMAIN index THEN index[t] ELSE <<>>)]

\* for comp_type, configs in parent_comps.items():
\*     parent_components[comp_type].extend(configs), the list created when missing
Merge(index, parent_comps) ==
    [t \in DOMAIN index \cup DOMAIN parent_comps |->
        (IF t \in DOMAIN index THEN index[t] ELSE <<>>)
          \o (IF t \in DOMAIN parent_comps THEN parent_comps[t] ELSE <<>>)]

\* for comp in parent['components']: the index after the first n components
RECURSIVE AddDirect(_, _, _)
AddDirect(index, comps, n) ==
    IF n = 0 THEN index
    ELSE LET prev == AddDirect(index, comps, n - 1)
             comp == comps[n]
         IN  IF IsDict(comp) /\ Has(comp.value, "type")
             THEN AppendTo(prev, Get(comp.value, "type").value, comp)
             ELSE prev

RECURSIVE get_all_parent_components(_, _)
RECURSIVE ParentLoop(_, _, _)

\* A loop that stops (break, not continue) once a warning has been printed.
ParentLoopBreak(store, parents, n) ==
    IF n = 0 THEN [components |-> EmptyIndex, warnings |-> <<>>]
    ELSE LET acc == ParentLoop(store, parents, n - 1)
             parent_id == parents[n].value
         IN  IF acc.warnings # <<>> THEN acc
             ELSE IF parent_id \notin DOMAIN store
             THEN [acc EXCEPT !.warnings = Append(@, parent_id)]
             ELSE LET parent == store[parent_id]
                      direct ==
                          IF Has(parent.value, "components")
                          THEN AddDirect(acc.components,
                                         Get(parent.value, "components").value,
                                         Len(Get(parent.value, "components").value))
                          ELSE acc.components
                      parent_comps == get_all_parent_components(store, parent)
                  IN  [components |-> Merge(direct, parent_comps.components),
                       warnings |-> acc.warnings \o parent_comps.warnings]

\* for parent_id in parents: the index and the warnings printed after the first
\* n parent ids
ParentLoop(store, parents, n) ==
    IF n = 0 THEN [components |-> EmptyIndex, warnings |-> <<>>]
    ELSE LET acc == ParentLoop(store, parents, n - 1)
             parent_id == parents[n].value
         IN  IF parent_id \notin DOMAIN store
             THEN [acc EXCEPT !.warnings = Append(@, parent_id)]
             ELSE LET parent == store[parent_id]
                      direct ==
                          IF Has(parent.value, "components")
                          THEN AddDirect(acc.components,
                                         Get(parent.value, "components").value,
                                         Len(Get(parent.value, "components").value))
                          ELSE acc.components
                      parent_comps == get_all_parent_components(store, parent)
                  IN  [components |-> Merge(direct, parent_comps.components),
                       warnings |-> acc.warnings \o parent_comps.warnings]

\* parents = prototype.get('parent', []); a str becomes [parents]; anything that
\* is not a list returns the empty index
get_all_parent_components(store, prototype) ==
    LET parents == IF Has(prototype.value, "parent")
                   THEN Get(prototype.value, "parent")
                   ELSE [cls |-> "list", value |-> <<>>]
    IN  IF IsStr(parents) THEN ParentLoop(store, <<parents>>, 1)
        ELSE IF ~IsList(parents) THEN [components |-> EmptyIndex, warnings |-> <<>>]
        ELSE ParentLoop(store, parents.value, Len(parents.value))

(***************************************************************************)
(* sanitize_prototype                                                      *)
(***************************************************************************)
\* del seq[i]
DelAt(seq, i) ==
    [j \in 1..(Len(seq) - 1) |-> IF j < i THEN seq[j] ELSE seq[j + 1]]

\* The deletions done first to last.
RECURSIVE DeleteForward(_, _, _)
DeleteForward(components, components_to_remove, n) ==
    IF n = 0 THEN components
    ELSE DelAt(DeleteForward(components, components_to_remove, n - 1),
               components_to_remove[n][1])

\* for i, comp_type in reversed(components_to_remove): del components[i]
\* (n entries of components_to_remove are still to be deleted)
RECURSIVE DeleteReversed(_, _, _)
DeleteReversed(components, components_to_remove, n) ==
    IF n = 0 THEN components
    ELSE DeleteReversed(DelAt(components, components_to_remove[n][1]),
                        components_to_remove, n - 1)

sanitize_prototype(store, prototype) ==
    LET sanitized == prototype
    IN  IF ~Has(sanitized.value, "components")
           \/ ~IsList(Get(sanitized.value, "components"))
        THEN [sanitized |-> _order_prototype_fields(sanitized), warnings |-> <<>>]
        ELSE
        LET collected == get_all_parent_components(store, sanitized)
            parent_components == collected.components
            components == Get(sanitized.value, "components")
            Inherited(i) ==
                /\ IsDict(components.value[i])
                /\ Has(components.value[i].value, "type")
                /\ Get(components.value[i].value, "type").value \in DOMAIN parent_components
            parent_comps(i) ==
                parent_components[Get(components.value[i].value, "type").value]
            Redundant(i) ==
                /\ Inherited(i)
                /\ \E k \in DOMAIN parent_comps(i) :
                      are_components_equal(components.value[i], parent_comps(i)[k])
            indices == [i \in DOMAIN components.value |-> i]
            redundant == SelectSeq(indices, Redundant)
            components_to_remove ==
                [k \in DOMAIN redundant |->
                    <<redundant[k], Get(components.value[redundant[k]].value, "type").value>>]
            cleaned ==
                [i \in DOMAIN components.value |->
                    IF Inherited(i) /\ ~Redundant(i)
                    THEN LET cleaned_comp ==
                                 _remove_redundant_fields(components.value[i], parent_comps(i))
                         IN  IF cleaned_comp # components.value[i]
                             THEN cleaned_comp
                             ELSE components.value[i]
                    ELSE components.value[i]]
            remaining ==
                DeleteReversed(cleaned, components_to_remove, Len(components_to_remove))
        IN  [sanitized |->
                _order_prototype_fields(
                    [sanitized EXCEPT
                        !.value = Put(@, "components", [components EXCEPT !.value = remaining])]),
             warnings |-> collected.warnings]

(***************************************************************************)
(* Spec: find_and_sanitize_prototype on a loaded store, and the sanitizer  *)
(* applied once more to its own output                                     *)
(***************************************************************************)
MaxComps == 3

Component(t, fields) == CommentedMap(<< <<"type", Str(t)>> >> \o fields)

MapA == CommentedMap(<< <<"a", Str("1")>> >>)

MapAB == CommentedMap(<< <<"a", Str("1")>>, <<"b", Str("2")>> >>)

\* The components a target prototype is built from; the last has no type
TargetComps ==
    {Component("Sprite", <<>>),
     Component("Sprite", << <<"path", Str("x")>> >>),
     Component("Sprite", << <<"path", Str("x")>>, <<"color", Str("red")>> >>),
     Component("Sprite", << <<"path", MapA>> >>),
     Component("Item", <<>>),
     CommentedMap(<< <<"path", Str("x")>> >>)}

\* The components an ancestor prototype is built from
AncestorComps ==
    {Component("Sprite", <<>>),
     Component("Sprite", << <<"path", Str("x")>> >>),
     Component("Sprite", << <<"color", Str("red")>> >>),
     Component("Sprite", << <<"color", Str("red")>>, <<"path", Str("x")>> >>),
     Component("Sprite", << <<"path", MapAB>> >>),
     Component("Item", <<>>)}

\* An ancestor declares no component, one, or two of the same type
AncestorCompLists ==
    {<<>>} \cup {<<c>> : c \in AncestorComps}
      \cup {<<Component("Sprite", << <<"path", Str("x")>> >>),
              Component("Sprite", << <<"color", Str("red")>> >>)>>}

\* A document without a components key; parent is left out when None
Bare(id, parent) ==
    CommentedMap(<< <<"type", Str("entity")>>, <<"id", Str(id)>> >>
        \o (IF parent = None THEN <<>> ELSE << <<"parent", parent>> >>))

\* A document as load_all_prototypes keeps it
Document(id, parent, comps) ==
    CommentedMap(Bare(id, parent).value \o << <<"components", CommentedSeq(comps)>> >>)

\* self.prototypes[prototype['id']] = prototype, for each document of docs
StoreOf(docs) ==
    [id \in {Get(d.value, "id").value : d \in docs} |->
        CHOOSE d \in docs : Get(d.value, "id").value = id]

\* The component lists of an ancestor that is one of several
FewCompLists ==
    {<<>>,
     <<Component("Sprite", <<>>)>>,
     <<Component("Sprite", << <<"path", Str("x")>> >>)>>,
     <<Component("Sprite", << <<"path", Str("x")>> >>),
       Component("Sprite", << <<"color", Str("red")>> >>)>>}

\* A without a parent reference
LoneA == {{Document("A", None, ca)} : ca \in AncestorCompLists}

\* A with its parent reference: none, the id Ghost no file defines, or G
SubtreesOfA ==
    LoneA
      \cup {{Document("A", Str("Ghost"), ca)} : ca \in FewCompLists}
      \cup {{Document("A", Str("G"), ca), Document("G", None, cg)} :
               ca \in FewCompLists, cg \in FewCompLists}

\* The target's parent reference and the documents it leads to
Ancestries ==
    {[parent |-> None, docs |-> {}],
     [parent |-> Str("Ghost"), docs |-> {}]}
      \cup {[parent |-> Str("A"), docs |-> sa] : sa \in SubtreesOfA}
      \cup {[parent |-> CommentedSeq(<<Str("Ghost"), Str("A")>>), docs |-> sa] :
               sa \in LoneA}
      \cup {[parent |-> CommentedSeq(<<Str("A"), Str("B")>>),
             docs |-> {Document("A", None, ca), Document("B", None, cb)}] :
               ca \in FewCompLists, cb \in FewCompLists}

Stores ==
    {StoreOf(an.docs \cup {Document("P", an.parent, comps)}) :
        an \in Ancestries, comps \in SeqsUpTo(TargetComps, MaxComps)}
      \cup {StoreOf(an.docs \cup {Bare("P", an.parent)}) : an \in Ancestries}

Init ==
    /\ prototypes \in Stores
    /\ pc = "loaded"
    /\ arg = None
    /\ ret = None
    /\ ret2 = None
    /\ warnings = <<>>
    /\ stack = <<>>

\* find_and_sanitize_prototype(prototype_id, output_file): ret is the document
\* dumped to the output file
FindAndSanitize(prototype_id) ==
    /\ pc = "loaded"
    /\ arg' = prototype_id
    /\ IF prototype_id \notin DOMAIN prototypes
       THEN /\ pc' = "notfound"
            /\ UNCHANGED <<ret, warnings>>
       ELSE LET r == sanitize_prototype(prototypes, prototypes[prototype_id])
            IN  /\ ret' = r.sanitized
                /\ warnings' = r.warnings
                /\ pc' = "sanitized"
    /\ UNCHANGED <<prototypes, ret2, stack>>

\* sanitize_prototype on the sanitized document, against the same store
SanitizeAgain ==
    /\ pc = "sanitized"
    /\ ret2' = sanitize_prototype(prototypes, ret).sanitized
    /\ pc' = "resanitized"
    /\ UNCHANGED <<prototypes, arg, ret, warnings, stack>>

Next ==
    \/ \E prototype_id \in {"P", "Q"} : FindAndSanitize(prototype_id)
    \/ SanitizeAgain

Spec == Init /\ [][Next]_vars

(***************************************************************************)
(* The notions the properties are stated with                              *)
(***************************************************************************)
\* The parent ids a document declares, in declaration order
ParentIds(doc) ==
    IF ~Has(doc.value, "parent") THEN <<>>
    ELSE LET p == Get(doc.value, "parent")
         IN  IF IsStr(p) THEN <<p.value>>
             ELSE IF IsList(p) THEN [i \in DOMAIN p.value |-> p.value[i].value]
             ELSE <<>>

\* The ids met on the parent chain of doc, depth first: each declared parent,
\* then what that parent's own chain yields, then the next declared parent
RECURSIVE PreOrder(_, _)
RECURSIVE PreOrderOf(_, _, _)
PreOrderOf(store, ids, n) ==
    IF n = 0 THEN <<>>
    ELSE PreOrderOf(store, ids, n - 1) \o <<ids[n]>>
           \o (IF ids[n] \in DOMAIN store THEN PreOrder(store, store[ids[n]]) ELSE <<>>)

PreOrder(store, doc) == PreOrderOf(store, ParentIds(doc), Len(ParentIds(doc)))

IsTyped(comp) == IsDict(comp) /\ Has(comp.value, "type")

TypeOf(comp) == Get(comp.value, "type").value

\* The components of type t a document declares itself
OwnComponents(doc, t) ==
    IF Has(doc.value, "components")
    THEN SelectSeq(Get(doc.value, "components").value,
                   LAMBDA c : IsTyped(c) /\ TypeOf(c) = t)
    ELSE <<>>

RECURSIVE ComponentsAlong(_, _, _, _)
ComponentsAlong(store, ids, t, n) ==
    IF n = 0 THEN <<>>
    ELSE ComponentsAlong(store, ids, t, n - 1)
           \o (IF ids[n] \in DOMAIN store THEN OwnComponents(store[ids[n]], t) ELSE <<>>)

\* The ancestor components of type t, in the order of the parent chain
AncestorComponents(store, doc, t) ==
    LET chain == PreOrder(store, doc)
    IN  ComponentsAlong(store, chain, t, Len(chain))

\* Child-to-parent whole equality: neither has a field besides type, or both
\* have and every field of the child is in the ancestor with an equal value
WholeEqual(comp, anc) ==
    LET cf == Keys(comp.value) \ {"type"}
        af == Keys(anc.value) \ {"type"}
    IN  \/ cf = {} /\ af = {}
        \/ /\ cf # {}
           /\ af # {}
           /\ \A k \in cf : k \in af /\ _compare_values(Get(comp.value, k), Get(anc.value, k))

Marked(store, doc, comp) ==
    /\ IsTyped(comp)
    /\ LET ancs == AncestorComponents(store, doc, TypeOf(comp))
       IN  \E k \in DOMAIN ancs : WholeEqual(comp, ancs[k])

\* Some ancestor component of comp's type has key k with a value equal to v
Supplied(store, doc, comp, k, v) ==
    LET ancs == AncestorComponents(store, doc, TypeOf(comp))
    IN  \E n \in DOMAIN ancs :
            Has(ancs[n].value, k) /\ _compare_values(v, Get(ancs[n].value, k))

\* The target's own components, and the indices of those not marked
TargetComponents == Get(prototypes[arg].value, "components").value

Unmarked ==
    SelectSeq([i \in DOMAIN TargetComponents |-> i],
              LAMBDA i : ~Marked(prototypes, prototypes[arg], TargetComponents[i]))

Sanitized == pc = "sanitized" /\ Has(prototypes[arg].value, "components")

OutComponents == Get(ret.value, "components").value

\* C3: the output's components are the target's unmarked components, one for
\* one and in their order: each has the type of its original and no item its
\* original lacks; a marked component is one that some ancestor component of
\* its type is whole-equal to.
C3_WholeRemoval ==
    Sanitized =>
        LET unmarked == Unmarked
        IN
        /\ Len(OutComponents) = Len(unmarked)
        /\ \A j \in DOMAIN unmarked :
             LET orig == TargetComponents[unmarked[j]]
                 out == OutComponents[j]
             IN  IF IsTyped(orig)
                 THEN /\ IsTyped(out)
                      /\ TypeOf(out) = TypeOf(orig)
                      /\ \A n \in DOMAIN out.value :
                            \E m \in DOMAIN orig.value : out.value[n] = orig.value[m]
                 ELSE out = orig

\* Of three components the first and the third were marked and deleted, and the
\* second is what is left.
C3_Witness ==
    /\ Sanitized
    /\ Len(TargetComponents) = 3
    /\ Unmarked = <<2>>
    /\ Len(OutComponents) = 1
    /\ IsTyped(TargetComponents[2])
    /\ \E k \in {1, 3} : NonTypeItems(TargetComponents[k]) # <<>>

\* What field-level stripping leaves of a component
Stripped(comp) ==
    IF IsTyped(comp)
    THEN [comp EXCEPT !.value =
            SelectSeq(@, LAMBDA item :
                \/ item[1] = "type"
                \/ ~Supplied(prototypes, prototypes[arg], comp, item[1], item[2]))]
    ELSE comp

\* C4: every component that is not whole-removed comes out with its type and
\* exactly the fields no ancestor component of its type supplies with a
\* comparer-equal value, each with its value and in its place; a component of a
\* type no ancestor declares comes out unchanged.
C4_FieldStripping ==
    Sanitized =>
        LET unmarked == Unmarked
        IN
        /\ OutComponents = [j \in DOMAIN unmarked |-> Stripped(TargetComponents[unmarked[j]])]
        /\ \A j \in DOMAIN unmarked :
             LET orig == TargetComponents[unmarked[j]]
             IN  (IsTyped(orig) /\ AncestorComponents(prototypes, prototypes[arg], TypeOf(orig)) = <<>>)
                    => OutComponents[j] = orig

\* {type: Sprite, path: x, color: red} came out as {type: Sprite, color: red}.
C4_Witness ==
    /\ Sanitized
    /\ \E j \in DOMAIN Unmarked :
          /\ TargetComponents[Unmarked[j]] =
                Component("Sprite", << <<"path", Str("x")>>, <<"color", Str("red")>> >>)
          /\ j \in DOMAIN OutComponents
          /\ OutComponents[j] = Component("Sprite", << <<"color", Str("red")>> >>)

\* Two values are identical: the same shape, mappings with the same keys both
\* ways and identical values, sequences identical element by element
RECURSIVE Identical(_, _)
Identical(x, y) ==
    IF IsDict(x) /\ IsDict(y)
    THEN /\ Keys(x.value) = Keys(y.value)
         /\ \A k \in Keys(x.value) : Identical(Get(x.value, k), Get(y.value, k))
    ELSE IF IsList(x) /\ IsList(y)
    THEN /\ Len(x.value) = Len(y.value)
         /\ \A i \in DOMAIN x.value : Identical(x.value[i], y.value[i])
    ELSE x = y

\* C2: every field stripped from a kept component, and every field of a removed
\* component, is in some ancestor component of the type under the same key with
\* an identical value.
C2_RemovalSoundness ==
    Sanitized =>
        LET unmarked == Unmarked
        IN
        \A i \in DOMAIN TargetComponents :
            LET comp == TargetComponents[i]
                kept == IF \E j \in DOMAIN unmarked : unmarked[j] = i
                        THEN OutComponents[CHOOSE j \in DOMAIN unmarked : unmarked[j] = i].value
                        ELSE <<>>
            IN  IsTyped(comp) =>
                  LET ancs == AncestorComponents(prototypes, prototypes[arg], TypeOf(comp))
                  IN
                  \A n \in DOMAIN comp.value :
                      (comp.value[n][1] # "type" /\ ~Has(kept, comp.value[n][1])) =>
                          \E m \in DOMAIN ancs :
                              /\ Has(ancs[m].value, comp.value[n][1])
                              /\ Identical(comp.value[n][2], Get(ancs[m].value, comp.value[n][1]))

\* C1: sanitizing the sanitized document again gives the same document.
C1_Idempotence == pc = "resanitized" => ret2 = ret

\* A parent reference with the ids the store lacks deleted from it
Resolved(store, parent) ==
    IF IsStr(parent)
    THEN (IF parent.value \in DOMAIN store THEN parent ELSE CommentedSeq(<<>>))
    ELSE IF IsList(parent)
    THEN [parent EXCEPT !.value = SelectSeq(@, LAMBDA p : p.value \in DOMAIN store)]
    ELSE parent

\* The store with every unresolved id deleted from the parent list naming it
DropUnresolved(store) ==
    [id \in DOMAIN store |->
        IF Has(store[id].value, "parent")
        THEN [store[id] EXCEPT
                !.value = Put(@, "parent", Resolved(store, Get(store[id].value, "parent")))]
        ELSE store[id]]

\* C8: sanitize completes on a chain with unresolved parent ids: the collector
\* (run when the target has a components list) prints one warning per
\* unresolved id it meets, and the document is the one obtained from the store
\* with those ids deleted from the parent lists (the target's own parent field,
\* which sanitize copies through, aside).
C8_UnresolvedParentSkipped ==
    pc = "sanitized" =>
        LET clean == DropUnresolved(prototypes)
            other == sanitize_prototype(clean, clean[arg])
            chain == PreOrder(prototypes, prototypes[arg])
        IN  /\ warnings = IF Has(prototypes[arg].value, "components")
                          THEN SelectSeq(chain, LAMBDA id : id \notin DOMAIN prototypes)
                          ELSE <<>>
            /\ other.warnings = <<>>
            /\ ret = IF Has(prototypes[arg].value, "parent")
                     THEN [other.sanitized EXCEPT
                             !.value = Put(@, "parent", Get(prototypes[arg].value, "parent"))]
                     ELSE other.sanitized

\* The first declared parent was unresolved, and a component was still removed
\* on account of the second.
C8_Witness ==
    /\ Sanitized
    /\ ParentIds(prototypes[arg]) = <<"Ghost", "A">>
    /\ warnings = <<"Ghost">>
    /\ Len(OutComponents) < Len(TargetComponents)

(***************************************************************************)
(* SpecCollect: get_all_parent_components on a prototype of a loaded       *)
(* store without parent cycles                                             *)
(***************************************************************************)
\* A component that names the prototype declaring it
Own(t, id) == Component(t, << <<"src", Str(id)>> >>)

CompListsOf(id) ==
    {<<>>,
     <<Own("Sprite", id)>>,
     <<Own("Item", id), Own("Sprite", id)>>,
     <<Own("Sprite", id), Component("Sprite", << <<"src", Str(id)>>, <<"n", Str("2")>> >>)>>}

\* The parent reference of each prototype; that of P may be of no known shape
ParentsOfP ==
    {None, Str("A"), CommentedSeq(<<Str("A"), Str("B")>>),
     CommentedSeq(<<Str("B"), Str("A")>>),
     CommentedSeq(<<Str("A"), Str("Ghost"), Str("B")>>),
     CommentedMap(<< <<"a", Str("A")>> >>)}

ParentsOfA == {None, Str("G"), CommentedSeq(<<Str("G"), Str("H")>>)}

ParentsOfB == {None, SingleQuoted("G"), Str("H")}

ParentsOfG == {None, Str("H")}

CollectStores ==
    {StoreOf({Document("P", pp, <<Own("Sprite", "P")>>),
              Document("A", pa, ca), Document("B", pb, cb),
              Document("G", pg, cg), Document("H", None, ch)}) :
        pp \in ParentsOfP, pa \in ParentsOfA, pb \in ParentsOfB, pg \in ParentsOfG,
        ca \in CompListsOf("A"), cb \in CompListsOf("B"),
        cg \in CompListsOf("G"), ch \in CompListsOf("H")}

InitCollect ==
    /\ prototypes \in CollectStores
    /\ pc = "loaded"
    /\ arg = None
    /\ ret = None
    /\ ret2 = None
    /\ warnings = <<>>
    /\ stack = <<>>

\* parent_components = self.get_all_parent_components(prototype)
Collect ==
    /\ pc = "loaded"
    /\ arg' = "P"
    /\ LET r == get_all_parent_components(prototypes, prototypes["P"])
       IN  /\ ret' = r.components
           /\ warnings' = r.warnings
    /\ pc' = "collected"
    /\ UNCHANGED <<prototypes, ret2, stack>>

NextCollect == Collect

SpecCollect == InitCollect /\ [][NextCollect]_vars

\* C7: the list collected for a component type is the ancestors' components of
\* that type in depth-first pre-order of the parent references (a parent's own
\* components, then what its ancestors yield, then the next declared parent),
\* and a type no ancestor declares has no entry.
C7_CollectorPreOrder ==
    pc = "collected" =>
        /\ DOMAIN ret \subseteq {"Sprite", "Item"}
        /\ \A t \in {"Sprite", "Item"} :
             LET ancs == AncestorComponents(prototypes, prototypes[arg], t)
             IN  IF ancs = <<>> THEN t \notin DOMAIN ret
                 ELSE t \in DOMAIN ret /\ ret[t] = ancs

\* With parent: [A, B] and A's parent G, the Sprite list is A's entry, G's
\* entry, B's entry.
C7_Witness ==
    /\ pc = "collected"
    /\ ParentIds(prototypes["P"]) = <<"A", "B">>
    /\ ParentIds(prototypes["A"]) = <<"G">>
    /\ ParentIds(prototypes["B"]) = <<>>
    /\ ParentIds(prototypes["G"]) = <<>>
    /\ "Sprite" \in DOMAIN ret
    /\ ret["Sprite"] = <<Own("Sprite", "A"), Own("Sprite", "G"), Own("Sprite", "B")>>

(***************************************************************************)
(* SpecCalls: get_all_parent_components call by call.  stack holds one     *)
(* frame per active call: the prototype, its normalised parents, the index *)
(* i of the parent id the loop is at, and parent_components so far.        *)
(***************************************************************************)
\* The interpreter's limit on the depth of the call stack
MaxDepth == 5

NormalisedParents(prototype) ==
    LET parents == IF Has(prototype.value, "parent")
                   THEN Get(prototype.value, "parent")
                   ELSE [cls |-> "list", value |-> <<>>]
    IN  IF IsStr(parents) THEN <<parents>>
        ELSE IF ~IsList(parents) THEN <<>>
        ELSE parents.value

\* The frame of a call that has just been entered
Frame(prototype) ==
    [prototype |-> prototype,
     parents |-> NormalisedParents(prototype),
     i |-> 1,
     parent_components |-> EmptyIndex]

Top == stack[Len(stack)]

AtParent == pc = "collecting" /\ Top.i <= Len(Top.parents)

ParentId == Top.parents[Top.i].value

CallParents ==
    {None, Str("P"), Str("A"), Str("B"), Str("Ghost"),
     CommentedSeq(<<Str("A"), Str("B")>>), CommentedSeq(<<Str("Ghost"), Str("B")>>),
     CommentedMap(<< <<"a", Str("P")>> >>)}

\* Stores whose parent references may form cycles
CallStores ==
    {StoreOf({Document("P", pp, <<Own("Sprite", "P")>>),
              Document("A", pa, <<Own("Sprite", "A")>>),
              Document("B", pb, <<Own("Item", "B"), Own("Sprite", "B")>>)}) :
        pp \in CallParents, pa \in CallParents, pb \in CallParents}

InitCalls ==
    /\ prototypes \in CallStores
    /\ pc = "collecting"
    /\ arg = "P"
    /\ ret = None
    /\ ret2 = None
    /\ warnings = <<>>
    /\ stack = <<Frame(prototypes["P"])>>

\* if parent_id not in self.prototypes: print the warning; continue
SkipUnresolved ==
    /\ AtParent
    /\ ParentId \notin DOMAIN prototypes
    /\ warnings' = Append(warnings, ParentId)
    /\ stack' = [stack EXCEPT ![Len(stack)].i = @ + 1]
    /\ UNCHANGED <<prototypes, pc, arg, ret, ret2>>

\* The parent's direct components are appended and the call on the parent is
\* entered
Enter ==
    LET parent == prototypes[ParentId]
        direct == IF Has(parent.value, "components")
                  THEN AddDirect(Top.parent_components,
                                 Get(parent.value, "components").value,
                                 Len(Get(parent.value, "components").value))
                  ELSE Top.parent_components
    IN  stack' = Append([stack EXCEPT ![Len(stack)].parent_components = direct],
                        Frame(parent))

\* A call that treats a parent already on the call stack as done.
DescendGuarded ==
    /\ AtParent
    /\ ParentId \in DOMAIN prototypes
    /\ Len(stack) < MaxDepth
    /\ IF \E k \in DOMAIN stack : Get(stack[k].prototype.value, "id").value = ParentId
       THEN stack' = [stack EXCEPT ![Len(stack)].i = @ + 1]
       ELSE Enter
    /\ UNCHANGED <<prototypes, pc, arg, ret, ret2, warnings>>

\* parent_comps = self.get_all_parent_components(parent)
Descend ==
    /\ AtParent
    /\ ParentId \in DOMAIN prototypes
    /\ Len(stack) < MaxDepth
    /\ Enter
    /\ UNCHANGED <<prototypes, pc, arg, ret, ret2, warnings>>

\* The call that would exceed the depth limit raises RecursionError, which no
\* frame catches: no index is returned
Overflow ==
    /\ AtParent
    /\ ParentId \in DOMAIN prototypes
    /\ Len(stack) >= MaxDepth
    /\ pc' = "RecursionError"
    /\ stack' = <<>>
    /\ UNCHANGED <<prototypes, arg, ret, ret2, warnings>>

\* return parent_components: the caller merges it in and moves to its next
\* parent id; the outermost call hands the index to its caller
Return ==
    /\ pc = "collecting"
    /\ Top.i > Len(Top.parents)
    /\ IF Len(stack) = 1
       THEN /\ ret' = Top.parent_components
            /\ pc' = "done"
            /\ stack' = <<>>
       ELSE /\ stack' =
                [k \in 1..(Len(stack) - 1) |->
                    IF k = Len(stack) - 1
                    THEN [stack[k] EXCEPT
                            !.parent_components = Merge(@, Top.parent_components),
                            !.i = @ + 1]
                    ELSE stack[k]]
            /\ UNCHANGED <<ret, pc>>
    /\ UNCHANGED <<prototypes, arg, ret2, warnings>>

NextCalls == SkipUnresolved \/ Descend \/ Overflow \/ Return

\* A call that can take a step takes it
SpecCalls == InitCalls /\ [][NextCalls]_vars /\ WF_vars(NextCalls)

\* The ids a stored prototype refers to as parents and the store has
StoredParents(store, id) ==
    {ParentIds(store[id])[k] : k \in DOMAIN ParentIds(store[id])} \cap DOMAIN store

\* The ids reached from the ids of S by n or fewer parent references
RECURSIVE ReachedFrom(_, _, _)
ReachedFrom(store, S, n) ==
    IF n = 0 THEN S
    ELSE ReachedFrom(store, S \cup UNION {StoredParents(store, id) : id \in S}, n - 1)

\* A cycle of parent references among stored ids can be reached from id
CycleReachable(store, id) ==
    \E x \in ReachedFrom(store, {id}, Cardinality(DOMAIN store)) :
        x \in ReachedFrom(store, StoredParents(store, x), Cardinality(DOMAIN store))

\* C10: the collector returns an index exactly when no cycle of parent
\* references among stored ids can be reached from the prototype: with such a
\* cycle it never returns, without one it always does.
C10_TerminatesIffAcyclic ==
    /\ [](pc = "done" => ~CycleReachable(prototypes, arg))
    /\ (~CycleReachable(prototypes, arg)) ~> (pc = "done")

\* On the cycle P -> A -> P the calls reached the depth limit and no index was
\* returned.
C10_Witness ==
    /\ pc = "RecursionError"
    /\ ParentIds(prototypes["P"]) = <<"A">>
    /\ ParentIds(prototypes["A"]) = <<"P">>
    /\ ret = None

\* The call-by-call collector returns what get_all_parent_components returns.
CallsAgree ==
    pc = "done" =>
        LET r == get_all_parent_components(prototypes, prototypes[arg])
        IN  ret = r.components /\ warnings = r.warnings

====
